---- MODULE Spec2Model ----
(***************************************************************************)
(* Model of src/video_output/vout_subpictures.c: the subpicture heap of    *)
(* the video output thread (vout_CreateSubPicture, vout_DisplaySubPicture, *)
(* vout_DestroySubPicture), the selection of the subpictures to display    *)
(* (vout_SortSubPictures) and the walk of the selected list                *)
(* (vout_RenderSubPictures).                                               *)
(***************************************************************************)
EXTENDS Integers, Sequences, FiniteSets, TLC

\* ------------------------------------------------------------------------
\* Bounds of the model
\* ------------------------------------------------------------------------
\* number of slots of p_vout->p_subpicture[] (the header value is larger)
VOUT_MAX_SUBPICTURES == 3
\* largest i_size a producer asks for
MaxSize == 2
\* largest date (mtime_t) used for i_start, i_stop and display_date
MaxDate == 3
\* number of producer threads
NProducers == 2
\* number of Create calls and number of Sort calls in a run
MaxCreates == 4
MaxFrames == 2

Slots == 0 .. (VOUT_MAX_SUBPICTURES - 1)
\* the null pointer, as an index outside p_subpicture[]
NULL == 0 - 1
Sizes == 1 .. MaxSize
Dates == 0 .. MaxDate

\* ------------------------------------------------------------------------
\* subpicture_t
\* ------------------------------------------------------------------------
\* p_data is 0 for a null pointer, n > 0 for a live buffer of n bytes and
\* -n for a pointer to a buffer of n bytes that free() has released.
FreeSlot ==
    [ i_status |-> "FREE", i_type |-> "EMPTY", i_size |-> 0, p_data |-> 0,
      i_x |-> 0, i_y |-> 0, i_width |-> 0, i_height |-> 0,
      i_start |-> 0, i_stop |-> 0, b_ephemer |-> FALSE, p_next |-> NULL ]

\* vlc_mutex_t: the thread that holds it, or NoThread
NoThread == 0

\* vlc_mutex_trylock that finds the mutex free whoever holds it
vlc_mutex_trylock_Open(lock, self) == TRUE

\* can self take the mutex now
vlc_mutex_trylock(lock, self) == lock = NoThread

vlc_mutex_lock(lock, self) == self

vlc_mutex_unlock(lock, self) == NoThread

\* memalign( 16, bytes ): a live buffer, or a null pointer when memory is short
memalign(bytes, mem_ok) == IF mem_ok THEN bytes ELSE 0

\* free( p ): a live buffer becomes a released one; free( NULL ) does nothing
free(p) == IF p > 0 THEN 0 - p ELSE p

\* ------------------------------------------------------------------------
\* vout_DisplaySubPicture
\* ------------------------------------------------------------------------
\* SpuMarginY with the height of the subpicture left out of the test
SpuMarginY_NoHeight(sp, i_margin, out_height) ==
    IF i_margin >= 0
    THEN IF i_margin <= out_height
         THEN out_height - i_margin - sp.i_height
         ELSE sp.i_y
    ELSE sp.i_y

\* lines 66-73: the forced vertical position
SpuMarginY(sp, i_margin, out_height) ==
    IF i_margin >= 0
    THEN IF sp.i_height + i_margin <= out_height
         THEN out_height - i_margin - sp.i_height
         ELSE sp.i_y
    ELSE sp.i_y

vout_DisplaySubPicture(pool, i, i_margin, out_height) ==
    [ pool |-> [pool EXCEPT ![i].i_y = SpuMarginY(pool[i], i_margin, out_height),
                            ![i].i_status = "READY"],
      msg  |-> IF pool[i].i_status # "RESERVED"
               THEN "invalid status" ELSE "" ]

\* ------------------------------------------------------------------------
\* vout_DestroySubPicture
\* ------------------------------------------------------------------------
\* vout_DestroySubPicture giving the slot back as free
vout_DestroySubPicture_Frees(pool, i) ==
    [ pool |-> [pool EXCEPT ![i].i_status = "FREE"],
      msg  |-> IF pool[i].i_status # "RESERVED" /\ pool[i].i_status # "READY"
               THEN "invalid status" ELSE "" ]

vout_DestroySubPicture(pool, i) ==
    [ pool |-> [pool EXCEPT ![i].i_status = "DESTROYED"],
      msg  |-> IF pool[i].i_status # "RESERVED" /\ pool[i].i_status # "READY"
               THEN "invalid status" ELSE "" ]

\* ------------------------------------------------------------------------
\* vout_CreateSubPicture
\* ------------------------------------------------------------------------
\* the locals of the function; found is the slot of the early return of
\* line 114, NULL while the loop goes on
CreateLocals == [ p_free_subpic |-> NULL, p_destroyed_subpic |-> NULL, found |-> NULL ]

\* CreateLook asking for a strictly larger buffer
CreateLook_Larger(pool, loc, i, i_type, i_size) ==
    IF pool[i].i_status = "DESTROYED"
    THEN IF pool[i].i_type = i_type /\ pool[i].i_size > i_size
         THEN [loc EXCEPT !.found = i]
         ELSE IF loc.p_destroyed_subpic = NULL
              THEN [loc EXCEPT !.p_destroyed_subpic = i]
              ELSE loc
    ELSE IF loc.p_free_subpic = NULL /\ pool[i].i_status = "FREE"
         THEN [loc EXCEPT !.p_free_subpic = i]
         ELSE loc

\* lines 102-128: the body of the loop for slot i
CreateLook(pool, loc, i, i_type, i_size) ==
    IF pool[i].i_status = "DESTROYED"
    THEN IF pool[i].i_type = i_type /\ pool[i].i_size >= i_size
         THEN [loc EXCEPT !.found = i]
         ELSE IF loc.p_destroyed_subpic = NULL
              THEN [loc EXCEPT !.p_destroyed_subpic = i]
              ELSE loc
    ELSE IF loc.p_free_subpic = NULL /\ pool[i].i_status = "FREE"
         THEN [loc EXCEPT !.p_free_subpic = i]
         ELSE loc

\* lines 100-129: the loop, left at the first matching destroyed slot
RECURSIVE CreateScan(_, _, _, _, _)
CreateScan(pool, loc, i, i_type, i_size) ==
    IF i >= VOUT_MAX_SUBPICTURES \/ loc.found # NULL
    THEN loc
    ELSE CreateScan(pool, CreateLook(pool, loc, i, i_type, i_size), i + 1, i_type, i_size)

\* CreateUsesDestroyed never falling back on a destroyed slot
CreateUsesDestroyed_Never(loc) == FALSE

\* lines 132-138: is a destroyed slot taken over
CreateUsesDestroyed(loc) ==
    loc.p_free_subpic = NULL /\ loc.p_destroyed_subpic # NULL

\* lines 149-161: the buffer of the new subpicture
CreateData(i_type, i_size, mem_ok) ==
    CASE i_type = "TEXT" -> memalign(i_size + 1, mem_ok)
      [] i_type = "DVD"  -> memalign(i_size, mem_ok)
      [] OTHER           -> 0

\* CreatePrepare leaving the slot as it was when the allocation fails
CreatePrepare_KeepsOnFailure(sp, p_data, i_type, i_size) ==
    IF p_data # 0
    THEN [sp EXCEPT !.p_data = p_data, !.i_type = i_type, !.i_status = "RESERVED",
                    !.i_size = i_size, !.i_x = 0, !.i_y = 0,
                    !.i_width = 0, !.i_height = 0]
    ELSE [sp EXCEPT !.p_data = p_data]

\* lines 163-182: the slot after the allocation of its buffer
CreatePrepare(sp, p_data, i_type, i_size) ==
    IF p_data # 0
    THEN [sp EXCEPT !.p_data = p_data, !.i_type = i_type, !.i_status = "RESERVED",
                    !.i_size = i_size, !.i_x = 0, !.i_y = 0,
                    !.i_width = 0, !.i_height = 0]
    ELSE [sp EXCEPT !.p_data = p_data, !.i_type = "EMPTY", !.i_status = "FREE"]

\* what a call returns: the heap and the mutex when it returns, the returned
\* slot, the message logged, the slots whose buffer went through free() and
\* the number of bytes asked of memalign()
CreateResult(pool, lock, ret, msg, freed, alloc) ==
    [ pool |-> pool, lock |-> lock, ret |-> ret, msg |-> msg,
      freed |-> freed, alloc |-> alloc ]

\* lines 112-114: the matching destroyed slot is reserved again as it is
CreateReuse(pool, held, self, i) ==
    CreateResult([pool EXCEPT ![i].i_status = "RESERVED"],
                 vlc_mutex_unlock(held, self), i, "", {}, 0)

\* CreateFull returning with the mutex held
CreateFull_Locked(pool, held, self) ==
    CreateResult(pool, held, NULL, "subpicture heap is full", {}, 0)

\* lines 141-146: no free and no destroyed slot
CreateFull(pool, held, self) ==
    CreateResult(pool, vlc_mutex_unlock(held, self), NULL,
                 "subpicture heap is full", {}, 0)

\* lines 136-137: the buffer of the destroyed slot that is taken over
CreateRelease(pool, loc) ==
    IF CreateUsesDestroyed(loc)
    THEN [pool EXCEPT ![loc.p_destroyed_subpic].p_data = free(@)]
    ELSE pool

\* CreateTarget taking a destroyed slot before a free one
CreateTarget_DestroyedFirst(loc) ==
    IF loc.p_destroyed_subpic # NULL THEN loc.p_destroyed_subpic ELSE loc.p_free_subpic

\* lines 132-138: the slot that is prepared, NULL when there is none
CreateTarget(loc) ==
    IF CreateUsesDestroyed(loc) THEN loc.p_destroyed_subpic ELSE loc.p_free_subpic

\* the bytes lines 152 and 155 ask of memalign()
CreateBytes(i_type, i_size) ==
    CASE i_type = "TEXT" -> i_size + 1
      [] i_type = "DVD"  -> i_size
      [] OTHER           -> 0

\* lines 148-186: the slot is prepared and returned, or given up
CreateCommit(pool, held, self, loc, i_type, i_size, mem_ok) ==
    LET target == CreateTarget(loc)
        p_data == CreateData(i_type, i_size, mem_ok)
        sp     == CreatePrepare(pool[target], p_data, i_type, i_size)
    IN  CreateResult([pool EXCEPT ![target] = sp],
                     vlc_mutex_unlock(held, self),
                     IF p_data # 0 THEN target ELSE NULL,
                     IF p_data # 0 THEN ""
                     ELSE IF i_type \in {"TEXT", "DVD"}
                          THEN "spu allocation returned ENOMEM"
                          ELSE "unknown subpicture type",
                     IF CreateUsesDestroyed(loc) THEN {target} ELSE {},
                     CreateBytes(i_type, i_size))

\* the whole function
vout_CreateSubPicture(pool, lock, self, i_type, i_size, mem_ok) ==
    LET held == vlc_mutex_lock(lock, self)
        loc  == CreateScan(pool, CreateLocals, 0, i_type, i_size)
    IN  IF loc.found # NULL
        THEN CreateReuse(pool, held, self, loc.found)
        ELSE IF CreateTarget(loc) = NULL
             THEN CreateFull(CreateRelease(pool, loc), held, self)
             ELSE CreateCommit(CreateRelease(pool, loc), held, self, loc,
                               i_type, i_size, mem_ok)

\* ------------------------------------------------------------------------
\* vout_SortSubPictures
\* ------------------------------------------------------------------------
\* the locals of the function, with the heap they act on and the slots the
\* call has destroyed
SortLocals(pool) ==
    [ pool |-> pool, p_subpic |-> NULL, p_ephemer |-> NULL, ephemer_date |-> 0,
      destroyed |-> {} ]

\* lines 335-339 and 348-351: the date of the 2nd youngest subpicture
SortEphemerDate(ephemer_date, i_start) ==
    IF ephemer_date = 0 \/ ephemer_date > i_start THEN i_start ELSE ephemer_date

\* SortLink leaving the p_next of the slot as an earlier call set it
SortLink_KeepsNext(st, i) == [st EXCEPT !.p_subpic = i]

\* lines 345-346 and 356-357: slot i becomes the head of the list
SortLink(st, i) ==
    [st EXCEPT !.pool = [st.pool EXCEPT ![i].p_next = st.p_subpic], !.p_subpic = i]

\* SortTooLate one date late
SortTooLate_OffByOne(sp, display_date) == display_date > sp.i_stop + 1

\* line 300: too late, the subpicture is destroyed
SortTooLate(sp, display_date) == display_date > sp.i_stop

\* SortTooEarly finding no subpicture too early
SortTooEarly_Never(sp, display_date) == FALSE

\* line 308: too early, the subpicture is left for a later call
SortTooEarly(sp, display_date) == display_date < sp.i_start

\* lines 324-325: does slot i take the place of the ephemer subpicture
SortReplaces(sp, ephemer) == sp.i_start < ephemer.i_start

\* lines 297-358: the body of the loop for a slot whose status was READY
SortTake(st, i, display_date) ==
    LET sp == st.pool[i] IN
    IF sp.i_type = "DVD"
    THEN IF SortTooLate(sp, display_date)
         THEN [st EXCEPT !.pool = vout_DestroySubPicture(st.pool, i).pool,
                         !.destroyed = @ \cup {i}]
         ELSE IF SortTooEarly(sp, display_date)
         THEN st
         ELSE IF sp.b_ephemer /\ st.p_ephemer = NULL
         THEN [st EXCEPT !.p_ephemer = i]
         ELSE IF sp.b_ephemer /\ SortReplaces(sp, st.pool[st.p_ephemer])
         THEN LET linked == SortLink(st, st.p_ephemer)
              IN  [linked EXCEPT !.p_ephemer = i,
                                 !.ephemer_date =
                                     SortEphemerDate(@, linked.pool[linked.p_subpic].i_start)]
         ELSE LET linked == SortLink(st, i)
              IN  [linked EXCEPT !.ephemer_date =
                                     SortEphemerDate(@, linked.pool[i].i_start)]
    ELSE SortLink(st, i)

\* SortLook taking the slot whatever its status
SortLook_AnyStatus(st, i, display_date) == SortTake(st, i, display_date)

\* lines 295-359: the body of the loop for slot i
SortLook(st, i, display_date) ==
    IF st.pool[i].i_status = "READY" THEN SortTake(st, i, display_date) ELSE st

\* lines 293-360: the loop
RECURSIVE SortScan(_, _, _)
SortScan(st, i, display_date) ==
    IF i >= VOUT_MAX_SUBPICTURES
    THEN st
    ELSE SortScan(SortLook(st, i, display_date), i + 1, display_date)

\* SortLivedTooLong for the subpicture that starts at ephemer_date too
SortLivedTooLong_OrEqual(ephemer, ephemer_date) == ephemer.i_start <= ephemer_date

\* line 366: has the ephemer subpicture lived too long
SortLivedTooLong(ephemer, ephemer_date) == ephemer.i_start < ephemer_date

\* lines 362-379: the fate of the ephemer subpicture and the returned head
SortFinish(st) ==
    IF st.p_ephemer # NULL
    THEN IF SortLivedTooLong(st.pool[st.p_ephemer], st.ephemer_date)
         THEN [ pool |-> vout_DestroySubPicture(st.pool, st.p_ephemer).pool,
                ret |-> st.p_subpic,
                destroyed |-> st.destroyed \cup {st.p_ephemer} ]
         ELSE [ pool |-> [st.pool EXCEPT ![st.p_ephemer].p_next = st.p_subpic],
                ret |-> st.p_ephemer,
                destroyed |-> st.destroyed ]
    ELSE [ pool |-> st.pool, ret |-> st.p_subpic, destroyed |-> st.destroyed ]

vout_SortSubPictures(pool, display_date) ==
    SortFinish(SortScan(SortLocals(pool), 0, display_date))

\* ------------------------------------------------------------------------
\* vout_RenderSubPictures
\* ------------------------------------------------------------------------
\* lines 223-269: the slots the walk visits from p_subpic on, in order; the
\* walk is cut after fuel slots
RECURSIVE RenderWalk(_, _, _)
RenderWalk(pool, p_subpic, fuel) ==
    IF p_subpic = NULL \/ fuel = 0
    THEN << >>
    ELSE << p_subpic >> \o RenderWalk(pool, pool[p_subpic].p_next, fuel - 1)

\* line 268: the slot the walk goes to after p_subpic
RenderNext(pool, p_subpic) == pool[p_subpic].p_next

\* ------------------------------------------------------------------------
\* vout_RenderSPU, RV16 target: one line of the subpicture
\* ------------------------------------------------------------------------
\* line 406: p_trsp[], colour 0 is transparent and the others are opaque
SpuTrsp(i_color) == IF i_color = 0 THEN 0 ELSE 255

\* line 464: the horizontal scale, with 6 bits after the point
SpuXScale(output_i_width, render_i_width) ==
    (output_i_width * 64) \div render_i_width

\* line 467: the width of the subpicture in the output, same fixed point
SpuWidth(i_width, i_xscale) == i_width * i_xscale

\* lines 500 and 509: the length of a run in the output, same fixed point
SpuLen(i_xscale, run) == i_xscale * run

\* lines 501-503 and 510-512: memset() writes 2 * ( ( i_len >> 6 ) + 1 )
\* bytes, and a pixel of RV16 is two bytes
SpuFillPixels(i_len) == (2 * ((i_len \div 64) + 1)) \div 2

\* lines 470 and 501: the pixel memset() starts at, counted from the left
\* of the subpicture: p_dest is ( i_width >> 6 ) pixels to the right of it
\* and the run starts ( i_x >> 6 ) pixels to the left of p_dest
SpuFillStart(i_width, i_x) == (i_width \div 64) - (i_x \div 64)

\* the pixels of the line after memset() has written n pixels of i_color
\* from pixel start on
SpuMemset(pixels, start, n, i_color) ==
    { px \in pixels : px[1] < start \/ px[1] >= start + n }
        \cup { << col, i_color >> : col \in start .. (start + n - 1) }

\* lines 491-514: one turn of the loop over the runs of a line
SpuRun(st, run, i_color) ==
    LET i_len == SpuLen(st.i_xscale, run) IN
    IF SpuTrsp(i_color) = 0
    THEN [st EXCEPT !.i_x = @ - i_len, !.run = run, !.i_color = i_color,
                    !.i_len = i_len, !.start = 0, !.filled = 0]
    ELSE [st EXCEPT !.i_x = @ - i_len, !.run = run, !.i_color = i_color,
                    !.i_len = i_len,
                    !.start = SpuFillStart(st.i_width, st.i_x),
                    !.filled = SpuFillPixels(i_len),
                    !.pixels = SpuMemset(@, SpuFillStart(st.i_width, st.i_x),
                                         SpuFillPixels(i_len), i_color)]

\* ------------------------------------------------------------------------
\* State
\* ------------------------------------------------------------------------
VARIABLES
    p_subpicture,       \* p_vout->p_subpicture[]
    subpicture_lock,    \* p_vout->subpicture_lock
    output_i_height,    \* p_vout->output.i_height
    call,               \* the last call that returned: its arguments and results
    pc,                 \* where each thread stands in the call it is making
    create,             \* the arguments and locals of each producer's Create call
    sort,               \* the arguments and locals of the output thread's calls
    holders,            \* per slot, the producers a Create call gave it to
    claims,             \* per slot, the Create calls that took it since its last Destroy
    releases,           \* per slot, the Create calls that freed its buffer since then
    created,            \* the Create calls the threads have made
    frames,             \* the Sort calls the output thread has made
    spu                 \* the arguments and locals of vout_RenderSPU

heap == << p_subpicture, subpicture_lock, output_i_height >>

threads == << pc, create, sort, holders, claims, releases >>

vars == << p_subpicture, subpicture_lock, output_i_height, call,
           pc, create, sort, holders, claims, releases, created, frames, spu >>

\* the producer threads and the video output thread
Producers == (NoThread + 1) .. (NoThread + NProducers)

Vout == NoThread + NProducers + 1

\* the caller of the calls that run to completion
Caller == NoThread + 1

NoCreate == [ i_type |-> "", i_size |-> 0, loc |-> CreateLocals ]

NoSort ==
    [ date |-> 0, i |-> 0, p_subpic |-> NULL, p_ephemer |-> NULL,
      ephemer_date |-> 0 ]

\* was is the status the slot of a Display or Destroy call had before it;
\* mem_ok tells whether memalign() had memory to give to a Create call
NoCall ==
    [ op |-> "", slot |-> NULL, was |-> "", i_type |-> "", i_size |-> 0,
      date |-> 0, i_margin |-> 0, ret |-> NULL, msg |-> "", freed |-> {},
      alloc |-> 0, destroyed |-> {}, mem_ok |-> TRUE ]

\* vout_RenderSPU before it is called: i_width is the scaled width of line
\* 467, pixels the pixels of the line that were written, each with its colour
NoSpu ==
    [ pc |-> "idle", output_i_width |-> 0, render_i_width |-> 0, spu_i_width |-> 0,
      i_xscale |-> 0, i_width |-> 0, i_x |-> 0, run |-> 0, i_color |-> 0,
      i_len |-> 0, start |-> 0, filled |-> 0, pixels |-> {} ]

\* p_vout->output.i_height of the runs
OutputHeights == {480}

Init ==
    /\ p_subpicture = [i \in Slots |-> FreeSlot]
    /\ subpicture_lock = NoThread
    /\ output_i_height \in OutputHeights
    /\ call = NoCall
    /\ pc = [t \in Producers \cup {Vout} |-> "idle"]
    /\ create = [t \in Producers |-> NoCreate]
    /\ sort = NoSort
    /\ holders = [i \in Slots |-> {}]
    /\ claims = [i \in Slots |-> 0]
    /\ releases = [i \in Slots |-> 0]
    /\ created = 0
    /\ frames = 0
    /\ spu = NoSpu

\* ------------------------------------------------------------------------
\* The calls, each run to completion
\* ------------------------------------------------------------------------
Create(i_type, i_size, mem_ok) ==
    /\ created < MaxCreates
    /\ vlc_mutex_trylock(subpicture_lock, Caller)
    /\ LET r == vout_CreateSubPicture(p_subpicture, subpicture_lock, Caller,
                                      i_type, i_size, mem_ok)
       IN  /\ p_subpicture' = r.pool
           /\ subpicture_lock' = r.lock
           /\ created' = created + 1
           /\ call' = [NoCall EXCEPT !.op = "Create", !.i_type = i_type,
                                     !.i_size = i_size, !.ret = r.ret, !.msg = r.msg,
                                     !.freed = r.freed, !.alloc = r.alloc,
                                     !.mem_ok = mem_ok]
    /\ UNCHANGED << output_i_height, threads, spu, frames >>

\* the producer of a reserved subpicture sets its place and its dates
Fill(i, f) ==
    /\ p_subpicture[i].i_status = "RESERVED"
    /\ p_subpicture' = [p_subpicture EXCEPT
                           ![i].i_x = f.i_x, ![i].i_y = f.i_y,
                           ![i].i_width = f.i_width, ![i].i_height = f.i_height,
                           ![i].i_start = f.i_start, ![i].i_stop = f.i_stop,
                           ![i].b_ephemer = f.b_ephemer]
    /\ call' = [NoCall EXCEPT !.op = "Fill", !.slot = i]
    /\ UNCHANGED << subpicture_lock, output_i_height, threads, spu, created, frames >>

Display(i, i_margin) ==
    /\ p_subpicture[i].i_status = "RESERVED"
    /\ LET r == vout_DisplaySubPicture(p_subpicture, i, i_margin, output_i_height)
       IN  /\ p_subpicture' = r.pool
           /\ call' = [NoCall EXCEPT !.op = "Display", !.slot = i,
                                     !.was = p_subpicture[i].i_status,
                                     !.i_margin = i_margin, !.msg = r.msg]
    /\ UNCHANGED << subpicture_lock, output_i_height, threads, spu, created, frames >>

Destroy(i) ==
    /\ p_subpicture[i].i_status \in {"RESERVED", "READY"}
    /\ LET r == vout_DestroySubPicture(p_subpicture, i)
       IN  /\ p_subpicture' = r.pool
           /\ call' = [NoCall EXCEPT !.op = "Destroy", !.slot = i,
                                     !.was = p_subpicture[i].i_status,
                                     !.msg = r.msg]
    /\ UNCHANGED << subpicture_lock, output_i_height, threads, spu, created, frames >>

Sort(display_date) ==
    /\ frames < MaxFrames
    /\ frames' = frames + 1
    /\ LET r == vout_SortSubPictures(p_subpicture, display_date)
       IN  /\ p_subpicture' = r.pool
           /\ call' = [NoCall EXCEPT !.op = "Sort", !.date = display_date,
                                     !.ret = r.ret, !.destroyed = r.destroyed]
    /\ UNCHANGED << subpicture_lock, output_i_height, threads, spu, created >>

\* a producer leaves the place and the dates as they are, or sets them
NoPlace == [ i_x |-> 0, i_y |-> 0, i_width |-> 0, i_height |-> 0 ]

NoDates == [ i_start |-> 0, i_stop |-> 0, b_ephemer |-> FALSE ]

FillOf(place, dates) ==
    [ i_x |-> place.i_x, i_y |-> place.i_y, i_width |-> place.i_width,
      i_height |-> place.i_height, i_start |-> dates.i_start,
      i_stop |-> dates.i_stop, b_ephemer |-> dates.b_ephemer ]

\* ------------------------------------------------------------------------
\* Spec: the heap. Subpictures of every type and size are created, with
\* and without memory, displayed as they are, destroyed and sorted.
\* ------------------------------------------------------------------------
Kinds == {"DVD", "TEXT", "EMPTY"}

HeapDates == {0, 1}

Next ==
    \/ \E t \in Kinds, s \in Sizes, ok \in BOOLEAN : Create(t, s, ok)
    \/ \E i \in Slots : Display(i, 0 - 1)
    \/ \E i \in Slots : Destroy(i)
    \/ \E d \in HeapDates : Sort(d)

Spec == Init /\ [][Next]_vars

\* ------------------------------------------------------------------------
\* SpecPlace: the margin. DVD subpictures of several heights are displayed
\* under several values of the margin variable.
\* ------------------------------------------------------------------------
Places ==
    { [ i_x |-> 3, i_y |-> 7, i_width |-> 9, i_height |-> h ] : h \in {0, 40, 470} }

Margins == {0 - 1, 0, 20}

NextPlace ==
    \/ Create("DVD", 1, TRUE)
    \/ \E i \in Slots, g \in Places : Fill(i, FillOf(g, NoDates))
    \/ \E i \in Slots, m \in Margins : Display(i, m)
    \/ \E i \in Slots : Destroy(i)

SpecPlace == Init /\ [][NextPlace]_vars

\* ------------------------------------------------------------------------
\* SpecSel: the dates. DVD subpictures, ephemer or not, are displayed with
\* several dates and sorted at several dates.
\* ------------------------------------------------------------------------
Windows ==
    { [ i_start |-> s, i_stop |-> MaxDate, b_ephemer |-> TRUE ] : s \in 1 .. MaxDate }
    \cup { [ i_start |-> 2, i_stop |-> MaxDate, b_ephemer |-> FALSE ] }

SelDates == {0, MaxDate}

NextSel ==
    \/ Create("DVD", 1, TRUE)
    \/ \E i \in Slots, w \in Windows : Fill(i, FillOf(NoPlace, w))
    \/ \E i \in Slots : Display(i, 0 - 1)
    \/ \E i \in Slots : Destroy(i)
    \/ \E d \in SelDates : Sort(d)

SpecSel == Init /\ [][NextSel]_vars

\* ------------------------------------------------------------------------
\* SpecTypes: the types. DVD and text subpictures that are not ephemer are
\* displayed with several dates and sorted at several dates.
\* ------------------------------------------------------------------------
TypeWindows ==
    { [ i_start |-> 1, i_stop |-> s, b_ephemer |-> FALSE ] : s \in {1, MaxDate} }

TypeDates == {0, 2}

NextTypes ==
    \/ \E t \in {"DVD", "TEXT"} : Create(t, 1, TRUE)
    \/ \E i \in Slots, w \in TypeWindows : Fill(i, FillOf(NoPlace, w))
    \/ \E i \in Slots : Display(i, 0 - 1)
    \/ \E i \in Slots : Destroy(i)
    \/ \E d \in TypeDates : Sort(d)

SpecTypes == Init /\ [][NextTypes]_vars

\* ------------------------------------------------------------------------
\* SpecConc: the threads. The producers and the video output thread run
\* their calls statement by statement: a Create call takes the mutex and scans,
\* releases the buffer of the slot it takes over and prepares the slot;
\* Display and Destroy are one store each; a Sort call tests the status of
\* a slot, then handles it, and the list it returns is walked slot by slot.
\* ------------------------------------------------------------------------
Go(t, label) == pc' = [pc EXCEPT ![t] = label]

\* slot i is given to producer p by a Create call ...
Taken(p, i) ==
    /\ holders' = [holders EXCEPT ![i] = @ \cup {p}]
    /\ claims' = [claims EXCEPT ![i] = @ + 1]

\* ... and the slots whose status a step turns to DESTROYED start afresh
Forget(pool) ==
    LET gone == { i \in Slots : /\ pool[i].i_status = "DESTROYED"
                                /\ p_subpicture[i].i_status # "DESTROYED" }
    IN  /\ claims' = [i \in Slots |-> IF i \in gone THEN 0 ELSE claims[i]]
        /\ releases' = [i \in Slots |-> IF i \in gone THEN 0 ELSE releases[i]]

\* lines 95-146: the mutex is taken and the loop run, up to the two returns
\* that need no buffer
CreateLoop(p, i_type, i_size) ==
    /\ pc[p] = "idle"
    /\ created < MaxCreates
    /\ created' = created + 1
    /\ vlc_mutex_trylock(subpicture_lock, p)
    /\ LET held == vlc_mutex_lock(subpicture_lock, p)
           loc  == CreateScan(p_subpicture, CreateLocals, 0, i_type, i_size)
       IN  IF loc.found # NULL
           THEN LET r == CreateReuse(p_subpicture, held, p, loc.found)
                IN  /\ p_subpicture' = r.pool
                    /\ subpicture_lock' = r.lock
                    /\ Taken(p, r.ret)
                    /\ UNCHANGED << pc, create, releases >>
           ELSE IF CreateTarget(loc) = NULL
           THEN LET r == CreateFull(p_subpicture, held, p)
                IN  /\ p_subpicture' = r.pool
                    /\ subpicture_lock' = r.lock
                    /\ UNCHANGED << pc, create, holders, claims, releases >>
           ELSE /\ subpicture_lock' = held
                /\ create' = [create EXCEPT ![p] = [ i_type |-> i_type,
                                                     i_size |-> i_size,
                                                     loc |-> loc ]]
                /\ Go(p, "release")
                /\ UNCHANGED << p_subpicture, holders, claims, releases >>
    /\ UNCHANGED << output_i_height, call, spu, sort, frames >>

\* lines 132-138
CreateTakeOver(p) ==
    /\ pc[p] = "release"
    /\ LET loc == create[p].loc
       IN  /\ p_subpicture' = CreateRelease(p_subpicture, loc)
           /\ releases' = IF CreateUsesDestroyed(loc)
                          THEN [releases EXCEPT ![loc.p_destroyed_subpic] = @ + 1]
                          ELSE releases
    /\ Go(p, "prepare")
    /\ UNCHANGED << subpicture_lock, output_i_height, call, spu, create, sort, holders,
                    claims, created, frames >>

\* lines 148-186
CreateReturn(p, mem_ok) ==
    /\ pc[p] = "prepare"
    /\ LET c == create[p]
           r == CreateCommit(p_subpicture, subpicture_lock, p, c.loc,
                             c.i_type, c.i_size, mem_ok)
       IN  /\ p_subpicture' = r.pool
           /\ subpicture_lock' = r.lock
           /\ IF r.ret # NULL
              THEN Taken(p, r.ret)
              ELSE UNCHANGED << holders, claims >>
    /\ create' = [create EXCEPT ![p] = NoCreate]
    /\ Go(p, "idle")
    /\ UNCHANGED << output_i_height, call, spu, sort, releases, created, frames >>

\* vout_DisplaySubPicture by the producer of the subpicture
ProducerDisplay(p, i, i_margin) ==
    /\ pc[p] = "idle"
    /\ p \in holders[i]
    /\ p_subpicture' = vout_DisplaySubPicture(p_subpicture, i, i_margin,
                                              output_i_height).pool
    /\ holders' = [holders EXCEPT ![i] = @ \ {p}]
    /\ UNCHANGED << subpicture_lock, output_i_height, call, spu, pc, create, sort,
                    claims, releases, created, frames >>

\* vout_DestroySubPicture by the producer of the subpicture, which gives
\* its reservation up, or by a producer on a subpicture that is displayed
ProducerDestroy(p, i) ==
    /\ pc[p] = "idle"
    /\ p \in holders[i] \/ p_subpicture[i].i_status = "READY"
    /\ p_subpicture' = vout_DestroySubPicture(p_subpicture, i).pool
    /\ holders' = [holders EXCEPT ![i] = @ \ {p}]
    /\ Forget(p_subpicture')
    /\ UNCHANGED << subpicture_lock, output_i_height, call, spu, pc, create, sort,
                    created, frames >>

\* the locals of the Sort call over the heap as it is now
SortState ==
    [ pool |-> p_subpicture, p_subpic |-> sort.p_subpic,
      p_ephemer |-> sort.p_ephemer, ephemer_date |-> sort.ephemer_date,
      destroyed |-> {} ]

SortKeep(st) ==
    [sort EXCEPT !.p_subpic = st.p_subpic, !.p_ephemer = st.p_ephemer,
                 !.ephemer_date = st.ephemer_date]

\* line 293: the loop goes to the next slot, or ends
SortAdvance(i) == IF i + 1 < VOUT_MAX_SUBPICTURES THEN "test" ELSE "finish"

\* lines 286-289
SortBegin(display_date) ==
    /\ pc[Vout] = "idle"
    /\ frames < MaxFrames
    /\ frames' = frames + 1
    /\ sort' = [NoSort EXCEPT !.date = display_date]
    /\ Go(Vout, "test")
    /\ UNCHANGED << heap, call, spu, create, holders, claims, releases, created >>

\* line 295
SortTest ==
    /\ pc[Vout] = "test"
    /\ IF p_subpicture[sort.i].i_status = "READY"
       THEN /\ Go(Vout, "take")
            /\ UNCHANGED sort
       ELSE /\ Go(Vout, SortAdvance(sort.i))
            /\ sort' = [sort EXCEPT !.i = @ + 1]
    /\ UNCHANGED << heap, call, spu, create, holders, claims, releases, created, frames >>

\* lines 297-358
SortHandle ==
    /\ pc[Vout] = "take"
    /\ LET st == SortTake(SortState, sort.i, sort.date)
       IN  /\ p_subpicture' = st.pool
           /\ sort' = [SortKeep(st) EXCEPT !.i = @ + 1]
           /\ Forget(st.pool)
    /\ Go(Vout, SortAdvance(sort.i))
    /\ UNCHANGED << subpicture_lock, output_i_height, call, spu, create, holders,
                    created, frames >>

\* lines 362-379: the returned list is handed to vout_RenderSubPictures
SortReturn ==
    /\ pc[Vout] = "finish"
    /\ LET r == SortFinish(SortState)
       IN  /\ p_subpicture' = r.pool
           /\ sort' = [NoSort EXCEPT !.p_subpic = r.ret]
           /\ Forget(r.pool)
    /\ Go(Vout, "render")
    /\ UNCHANGED << subpicture_lock, output_i_height, call, spu, create, holders,
                    created, frames >>

\* lines 223-269: one turn of the loop reads the slot and goes to the next
Render ==
    /\ pc[Vout] = "render"
    /\ IF sort.p_subpic # NULL
       THEN /\ sort' = [sort EXCEPT !.p_subpic = RenderNext(p_subpicture, @)]
            /\ UNCHANGED pc
       ELSE /\ sort' = NoSort
            /\ Go(Vout, "idle")
    /\ UNCHANGED << heap, call, spu, create, holders, claims, releases, created, frames >>

ConcKinds == {"DVD", "TEXT"}

ConcDates == {1}

NextConc ==
    \/ \E p \in Producers, t \in ConcKinds : CreateLoop(p, t, 1)
    \/ \E p \in Producers : CreateTakeOver(p)
    \/ \E p \in Producers : CreateReturn(p, TRUE)
    \/ \E p \in Producers, i \in Slots : ProducerDisplay(p, i, 0 - 1)
    \/ \E p \in Producers, i \in Slots : ProducerDestroy(p, i)
    \/ \E d \in ConcDates : SortBegin(d)
    \/ SortTest
    \/ SortHandle
    \/ SortReturn
    \/ Render

SpecConc == Init /\ [][NextConc]_vars

\* ------------------------------------------------------------------------
\* SpecScale: the scaling. vout_RenderSPU draws one line of a DVD subpicture
\* on an RV16 picture, run after run, for several widths of the output.
\* ------------------------------------------------------------------------
\* lines 464-468 and 488: the scale and the start of a line
RenderSPUBegin(output_i_width, render_i_width, i_width) ==
    /\ spu.pc \in {"idle", "done"}
    /\ LET i_xscale == SpuXScale(output_i_width, render_i_width)
       IN  spu' = [NoSpu EXCEPT !.pc = "line",
                                !.output_i_width = output_i_width,
                                !.render_i_width = render_i_width,
                                !.spu_i_width = i_width,
                                !.i_xscale = i_xscale,
                                !.i_width = SpuWidth(i_width, i_xscale),
                                !.i_x = SpuWidth(i_width, i_xscale)]
    /\ UNCHANGED << heap, call, threads, created, frames >>

\* lines 488-514: the next run of the line; the decoder has made the runs of
\* a line add up to the width of the subpicture
RenderSPURun(run, i_color) ==
    /\ spu.pc = "line"
    /\ spu.i_x # 0
    /\ SpuLen(spu.i_xscale, run) <= spu.i_x
    /\ spu' = SpuRun(spu, run, i_color)
    /\ UNCHANGED << heap, call, threads, created, frames >>

\* line 488: the loop over the runs ends when i_x is 0
RenderSPUEndLine ==
    /\ spu.pc = "line"
    /\ spu.i_x = 0
    /\ spu' = [spu EXCEPT !.pc = "done"]
    /\ UNCHANGED << heap, call, threads, created, frames >>

OutputWidths == {360, 720}

RenderWidths == {720}

SpuWidths == {10}

SpuRuns == {1, 5, 10}

\* the two low bits of a word of the source
SpuColors == 0 .. 3

NextScale ==
    \/ \E o \in OutputWidths, r \in RenderWidths, w \in SpuWidths : RenderSPUBegin(o, r, w)
    \/ \E n \in SpuRuns, c \in SpuColors : RenderSPURun(n, c)
    \/ RenderSPUEndLine

SpecScale == Init /\ [][NextScale]_vars

\* ------------------------------------------------------------------------
\* SpecPick: the choice of the slot. Subpictures of every type and size are
\* created, with and without memory, and destroyed, as often as it takes to
\* bring the heap into every arrangement of free, reserved and destroyed
\* slots; the heap has finitely many of them, so the calls are not counted.
\* ------------------------------------------------------------------------
CreateUncounted(i_type, i_size, mem_ok) ==
    /\ vlc_mutex_trylock(subpicture_lock, Caller)
    /\ LET r == vout_CreateSubPicture(p_subpicture, subpicture_lock, Caller,
                                      i_type, i_size, mem_ok)
       IN  /\ p_subpicture' = r.pool
           /\ subpicture_lock' = r.lock
           /\ call' = [NoCall EXCEPT !.op = "Create", !.i_type = i_type,
                                     !.i_size = i_size, !.ret = r.ret, !.msg = r.msg,
                                     !.freed = r.freed, !.alloc = r.alloc,
                                     !.mem_ok = mem_ok]
    /\ UNCHANGED << output_i_height, threads, spu, created, frames >>

NextPick ==
    \/ \E t \in Kinds, s \in Sizes, ok \in BOOLEAN : CreateUncounted(t, s, ok)
    \/ \E i \in Slots : Destroy(i)

SpecPick == Init /\ [][NextPick]_vars

\* ------------------------------------------------------------------------
\* SpecCut: the date of the 2nd youngest subpicture. DVD subpictures, ephemer
\* or not, that start at date 0 and later are displayed and sorted at a date
\* at which all of them are in their dates.
\* ------------------------------------------------------------------------
CutWindows ==
    { [ i_start |-> s, i_stop |-> MaxDate, b_ephemer |-> FALSE ] : s \in {0, 2} }
    \cup { [ i_start |-> s, i_stop |-> MaxDate, b_ephemer |-> TRUE ] : s \in {1, 2} }

CutDates == {MaxDate}

NextCut ==
    \/ Create("DVD", 1, TRUE)
    \/ \E i \in Slots, w \in CutWindows : Fill(i, FillOf(NoPlace, w))
    \/ \E i \in Slots : Display(i, 0 - 1)
    \/ \E i \in Slots : Destroy(i)
    \/ \E d \in CutDates : Sort(d)

SpecCut == Init /\ [][NextCut]_vars

\* ------------------------------------------------------------------------
\* SpecOwn: the threads over a full heap. A run begins when the producers
\* have created and displayed a DVD subpicture in every slot, and goes on
\* as under SpecConc; the calls are counted from there.
\* ------------------------------------------------------------------------
\* the heap after n calls of vout_CreateSubPicture, each followed by
\* vout_DisplaySubPicture on the slot it returned
RECURSIVE FilledHeap(_, _)
FilledHeap(pool, n) ==
    IF n = 0
    THEN pool
    ELSE LET r == vout_CreateSubPicture(pool, NoThread, Caller, "DVD", 1, TRUE)
         IN  FilledHeap(vout_DisplaySubPicture(r.pool, r.ret, 0 - 1, 0).pool, n - 1)

InitOwn ==
    /\ p_subpicture = FilledHeap([i \in Slots |-> FreeSlot], VOUT_MAX_SUBPICTURES)
    /\ subpicture_lock = NoThread
    /\ output_i_height \in OutputHeights
    /\ call = NoCall
    /\ pc = [t \in Producers \cup {Vout} |-> "idle"]
    /\ create = [t \in Producers |-> NoCreate]
    /\ sort = NoSort
    /\ holders = [i \in Slots |-> {}]
    /\ claims = [i \in Slots |-> 1]
    /\ releases = [i \in Slots |-> 0]
    /\ created = 0
    /\ frames = 0
    /\ spu = NoSpu

SpecOwn == InitOwn /\ [][NextConc]_vars

\* ------------------------------------------------------------------------
\* What the last call saw and returned. Every call leaves its name and its
\* arguments in call, so a step with call'.op = "Create" is a Create call
\* with the arguments call'.i_type and call'.i_size, and so on.
\* ------------------------------------------------------------------------
\* the slots of the list a Sort call returned
Listed ==
    LET walk == RenderWalk(p_subpicture, call.ret, VOUT_MAX_SUBPICTURES + 1)
    IN  { walk[k] : k \in 1 .. Len(walk) }

\* the slots that were ready when the Sort call began
WasReady == { i \in Slots : p_subpicture[i].i_status = "READY" } \cup call.destroyed

\* the DVD subpictures that were ready and in their dates at the Sort call
Eligible ==
    { i \in WasReady : /\ p_subpicture[i].i_type = "DVD"
                       /\ p_subpicture[i].i_start <= call.date
                       /\ call.date <= p_subpicture[i].i_stop }

EligibleEphemer == { i \in Eligible : p_subpicture[i].b_ephemer }

\* the slots of EligibleEphemer that started last
Latest ==
    { i \in EligibleEphemer :
        \A j \in EligibleEphemer : p_subpicture[j].i_start <= p_subpicture[i].i_start }

\* ------------------------------------------------------------------------
\* C1: a Sort call that finds several eligible ephemer DVD subpictures, one
\* of which started after all the others, returns a list with that one and
\* no other of them, and leaves every other one destroyed.
\* ------------------------------------------------------------------------
C1_FreshestOnly ==
    (call.op = "Sort" /\ Cardinality(EligibleEphemer) >= 2 /\ Cardinality(Latest) = 1)
        => /\ Listed \cap EligibleEphemer = Latest
           /\ \A i \in EligibleEphemer \ Latest : p_subpicture[i].i_status = "DESTROYED"

\* ------------------------------------------------------------------------
\* C2: a ready subpicture whose i_stop lies before the date of a Sort call
\* is not in the returned list and is destroyed when the call returns.
\* As claimed, for subpictures of every type:
\* ------------------------------------------------------------------------
C2_ExpiredAnyType ==
    call.op = "Sort"
        => \A i \in WasReady :
               call.date > p_subpicture[i].i_stop
                   => i \notin Listed /\ p_subpicture[i].i_status = "DESTROYED"

\* C2, amended: a ready DVD subpicture whose i_stop lies before the date of
\* a Sort call is not in the returned list and is destroyed when the call
\* returns.
C2_ExpiredDvd ==
    call.op = "Sort"
        => \A i \in WasReady :
               (p_subpicture[i].i_type = "DVD" /\ call.date > p_subpicture[i].i_stop)
                   => i \notin Listed /\ p_subpicture[i].i_status = "DESTROYED"

C2_Witness ==
    /\ call.op = "Sort"
    /\ \E i \in call.destroyed :
           /\ p_subpicture[i].i_type = "DVD"
           /\ call.date > p_subpicture[i].i_stop
           /\ p_subpicture[i].i_status = "DESTROYED"
    /\ \E i \in Listed : p_subpicture[i].i_type = "DVD"

\* ------------------------------------------------------------------------
\* C3: the status of a slot changes only along FREE -> RESERVED,
\* RESERVED -> READY, READY -> DESTROYED, DESTROYED -> FREE and
\* DESTROYED -> RESERVED.
\* ------------------------------------------------------------------------
StatusSteps ==
    { << "FREE", "RESERVED" >>, << "RESERVED", "READY" >>, << "READY", "DESTROYED" >>,
      << "DESTROYED", "FREE" >>, << "DESTROYED", "RESERVED" >> }

StatusChangesIn(steps) ==
    \A i \in Slots :
        p_subpicture'[i].i_status # p_subpicture[i].i_status
            => << p_subpicture[i].i_status, p_subpicture'[i].i_status >> \in steps

C3_StatusSteps == [][StatusChangesIn(StatusSteps)]_vars

\* C3, amended: the status of a slot changes only along the steps above and
\* RESERVED -> DESTROYED, the step of a producer that gives its subpicture up.
C3_StatusStepsWithAbort ==
    [][StatusChangesIn(StatusSteps \cup { << "RESERVED", "DESTROYED" >> })]_vars

C3_Witness ==
    /\ call.op = "Destroy"
    /\ call.was = "RESERVED"
    /\ p_subpicture[call.slot].i_status = "DESTROYED"

\* ------------------------------------------------------------------------
\* C4: a Create call logs "subpicture heap is full" exactly when every slot
\* is reserved or ready as the call begins; with a free or a destroyed slot
\* in the heap it never does.
\* ------------------------------------------------------------------------
HeapIsFull == \A i \in Slots : p_subpicture[i].i_status \in {"RESERVED", "READY"}

C4_FullOnlyWhenFull ==
    [][call'.op = "Create"
           => (call'.msg = "subpicture heap is full" <=> HeapIsFull)]_vars

C4_Witness ==
    /\ call.op = "Create"
    /\ call.freed # {}
    /\ call.ret # NULL
    /\ \A i \in Slots \ {call.ret} : p_subpicture[i].i_status \in {"RESERVED", "READY"}

\* ------------------------------------------------------------------------
\* C5: a Create call made while a destroyed slot of the asked type and of
\* at least the asked size is in the heap returns a slot, frees no buffer
\* and allocates none, and the returned slot keeps the buffer it had.
\* ------------------------------------------------------------------------
Matches(i, t, s) ==
    /\ p_subpicture[i].i_status = "DESTROYED"
    /\ p_subpicture[i].i_type = t
    /\ p_subpicture[i].i_size >= s

C5_ReuseWithoutAllocation ==
    [][(call'.op = "Create" /\ \E i \in Slots : Matches(i, call'.i_type, call'.i_size))
               => /\ call'.ret # NULL
                  /\ call'.freed = {}
                  /\ call'.alloc = 0
                  /\ \A i \in Slots : p_subpicture'[i].p_data = p_subpicture[i].p_data
                  /\ p_subpicture[call'.ret].p_data > 0]_vars

\* a smaller buffer was asked of a slot that was destroyed with a larger one
C5_Witness ==
    /\ call.op = "Create"
    /\ call.ret # NULL
    /\ call.alloc = 0
    /\ p_subpicture[call.ret].i_size > call.i_size
    /\ p_subpicture[call.ret].i_type = call.i_type
    /\ p_subpicture[call.ret].i_status = "RESERVED"

\* ------------------------------------------------------------------------
\* C9: a Display call with margin m on a subpicture of height h under an
\* output of height H sets i_y to H - m - h when m >= 0 and h + m <= H and
\* leaves i_y alone otherwise; i_x, i_width, i_height and p_data are left
\* alone in every case.
\* ------------------------------------------------------------------------
C9_Margin ==
    [][call'.op = "Display"
               => LET old == p_subpicture[call'.slot]
                      new == p_subpicture'[call'.slot]
                      m   == call'.i_margin
                  IN  /\ new.i_y = IF m >= 0 /\ old.i_height + m <= output_i_height
                                   THEN output_i_height - m - old.i_height
                                   ELSE old.i_y
                      /\ new.i_x = old.i_x
                      /\ new.i_width = old.i_width
                      /\ new.i_height = old.i_height
                      /\ new.p_data = old.p_data]_vars

\* the case of the specification: H = 480, m = 20, h = 40 gives 420
C9_Witness ==
    /\ call.op = "Display"
    /\ call.i_margin = 20
    /\ output_i_height = 480
    /\ p_subpicture[call.slot].i_height = 40
    /\ p_subpicture[call.slot].i_y = 420

\* ------------------------------------------------------------------------
\* C10: a Create call made while every slot is reserved or ready returns
\* NULL, logs "subpicture heap is full", leaves the mutex free and changes
\* no slot.
\* ------------------------------------------------------------------------
C10_FullFailsClosed ==
    [][(call'.op = "Create" /\ HeapIsFull)
               => /\ call'.ret = NULL
                  /\ call'.msg = "subpicture heap is full"
                  /\ subpicture_lock' = NoThread
                  /\ p_subpicture' = p_subpicture]_vars

C10_Witness ==
    /\ call.op = "Create"
    /\ call.ret = NULL
    /\ call.msg = "subpicture heap is full"
    /\ subpicture_lock = NoThread
    /\ \A i \in Slots : p_subpicture[i].i_status \in {"RESERVED", "READY"}

\* ------------------------------------------------------------------------
\* C6: the Create calls of the producers exclude one another from the scan
\* of the heap to the return: at most one producer is past the scan, and it
\* holds the mutex; between two Destroy calls on a slot at most one Create
\* call takes the slot and at most one frees its buffer.
\* ------------------------------------------------------------------------
InCreate == { p \in Producers : pc[p] \in {"release", "prepare"} }

C6_CreateExclusive ==
    /\ Cardinality(InCreate) <= 1
    /\ \A p \in InCreate : subpicture_lock = p
    /\ \A i \in Slots : claims[i] <= 1 /\ releases[i] <= 1

\* a producer holds a slot while another one, past the scan with the mutex,
\* has freed the buffer of the destroyed slot it takes over
C6_Witness ==
    \E p \in Producers, q \in Producers, i \in Slots, j \in Slots :
        /\ p # q
        /\ i # j
        /\ pc[p] = "prepare"
        /\ subpicture_lock = p
        /\ create[p].loc.p_destroyed_subpic = i
        /\ releases[i] = 1
        /\ p_subpicture[i].p_data < 0
        /\ q \in holders[j]
        /\ p_subpicture[j].i_status = "RESERVED"

\* ------------------------------------------------------------------------
\* C7: a slot that a Create call gave to a producer stays RESERVED, and
\* that producer's alone, until the producer displays or destroys it.
\* ------------------------------------------------------------------------
C7_ReservedIsOwned ==
    \A i \in Slots : \A p \in holders[i] :
        p_subpicture[i].i_status = "RESERVED" /\ holders[i] = {p}

\* ------------------------------------------------------------------------
\* C8: every slot vout_RenderSubPictures is about to read is READY.
\* ------------------------------------------------------------------------
C8_RenderReadsReady ==
    (pc[Vout] = "render" /\ sort.p_subpic # NULL)
        => p_subpicture[sort.p_subpic].i_status = "READY"

\* ------------------------------------------------------------------------
\* C11: a Create call that reaches the allocation (no destroyed slot matches
\* and the heap is not full) and gets no buffer (memalign() returns NULL or
\* the type is neither TEXT nor DVD) leaves the slot it chose FREE, of type
\* EMPTY, with a null p_data, returns NULL, leaves the mutex free and changes
\* no other slot; the slot it chose is the first free one or, with no free
\* one, the first destroyed one, whose buffer went through free().
\* ------------------------------------------------------------------------
FreeSlots == { i \in Slots : p_subpicture[i].i_status = "FREE" }

DestroyedSlots == { i \in Slots : p_subpicture[i].i_status = "DESTROYED" }

Lowest(S) == CHOOSE i \in S : \A j \in S : i <= j

ReachesAllocation ==
    /\ call'.op = "Create"
    /\ ~HeapIsFull
    /\ ~(\E i \in Slots : Matches(i, call'.i_type, call'.i_size))

Chosen == IF FreeSlots # {} THEN Lowest(FreeSlots) ELSE Lowest(DestroyedSlots)

C11_AllocationFailure ==
    [][(ReachesAllocation /\ (~call'.mem_ok \/ call'.i_type \notin {"TEXT", "DVD"}))
           => /\ p_subpicture'[Chosen].i_status = "FREE"
              /\ p_subpicture'[Chosen].i_type = "EMPTY"
              /\ p_subpicture'[Chosen].p_data = 0
              /\ call'.ret = NULL
              /\ subpicture_lock' = NoThread
              /\ \A j \in Slots \ {Chosen} : p_subpicture'[j] = p_subpicture[j]
              /\ call'.freed = IF FreeSlots # {} THEN {} ELSE {Chosen}]_vars

\* the allocation failed for a destroyed slot that was taken over
C11_Witness ==
    /\ call.op = "Create"
    /\ call.ret = NULL
    /\ call.msg = "spu allocation returned ENOMEM"
    /\ \E i \in call.freed :
           /\ p_subpicture[i].i_status = "FREE"
           /\ p_subpicture[i].i_type = "EMPTY"
           /\ p_subpicture[i].p_data = 0
    /\ \E j \in Slots : p_subpicture[j].i_status \in {"RESERVED", "READY"}

\* ------------------------------------------------------------------------
\* C12: the slot a Create call returns is RESERVED, of the asked type, with
\* i_size equal to the asked size and with i_x, i_y, i_width and i_height
\* at 0, whether the slot was a matching destroyed one, a free one or a
\* destroyed one that was taken over.
\* ------------------------------------------------------------------------
C12_SuccessResets ==
    [][(call'.op = "Create" /\ call'.ret # NULL)
           => LET new == p_subpicture'[call'.ret]
              IN  /\ new.i_status = "RESERVED"
                  /\ new.i_type = call'.i_type
                  /\ new.i_size = call'.i_size
                  /\ new.i_x = 0
                  /\ new.i_y = 0
                  /\ new.i_width = 0
                  /\ new.i_height = 0]_vars

\* ------------------------------------------------------------------------
\* C13: a slot that is FREE, RESERVED or DESTROYED when a Sort call looks at
\* it is not in the returned list, and the call changes neither its status
\* nor its p_next nor any other field of it.
\* ------------------------------------------------------------------------
NotReady == { i \in Slots : p_subpicture[i].i_status # "READY" }

C13_OnlyReadyConsidered ==
    [][call'.op = "Sort"
           => \A i \in NotReady :
                  /\ i \notin Listed'
                  /\ p_subpicture'[i] = p_subpicture[i]]_vars

\* the call returned a list and passed over a reserved slot and a slot that
\* was destroyed before the call, both with the p_next of an earlier list
C13_Witness ==
    /\ call.op = "Sort"
    /\ Listed # {}
    /\ \E i \in Slots \ Listed :
           /\ p_subpicture[i].i_status = "RESERVED"
           /\ p_subpicture[i].p_next # NULL
    /\ \E j \in Slots \ (Listed \cup call.destroyed) :
           /\ p_subpicture[j].i_status = "DESTROYED"
           /\ p_subpicture[j].p_next # NULL

\* ------------------------------------------------------------------------
\* C14: on an RV16 picture the horizontal scale is ( output width << 6 ) /
\* render width, which is 32 for an output of 360 and a render width of 720;
\* a run of an opaque colour is written over as many pixels as the cursor
\* i_x moves by, which is 5 pixels for a run of 10 under the scale 32.
\* ------------------------------------------------------------------------
OpaqueRun == spu.pc = "line" /\ spu'.pc = "line" /\ SpuTrsp(spu'.i_color) # 0

C14_ScaledRun ==
    [][OpaqueRun
           => /\ spu'.i_xscale = (spu'.output_i_width * 64) \div spu'.render_i_width
              /\ (spu'.output_i_width = 360 /\ spu'.render_i_width = 720)
                     => spu'.i_xscale = 32
              /\ spu'.filled = (spu.i_x - spu'.i_x) \div 64
              /\ (spu'.i_xscale = 32 /\ spu'.run = 10) => spu'.filled = 5]_vars

\* ------------------------------------------------------------------------
\* C15: a Create call takes the first destroyed slot of the asked type and
\* of at least the asked size, as it is, even with a free slot before it;
\* with no such slot it takes the first free slot and frees no buffer; with
\* no free slot either it takes the first destroyed slot, whose buffer, live
\* until then, goes through free() before the new one is put in its place.
\* ------------------------------------------------------------------------
MatchingSlots(t, s) == { i \in Slots : Matches(i, t, s) }

OthersUnchanged(i) == \A j \in Slots \ {i} : p_subpicture'[j] = p_subpicture[j]

AllocationFails == ~call'.mem_ok \/ call'.i_type \notin {"TEXT", "DVD"}

C15_PickOrder ==
    [][call'.op = "Create"
           => LET m == MatchingSlots(call'.i_type, call'.i_size)
              IN  IF m # {}
                  THEN /\ call'.ret = Lowest(m)
                       /\ p_subpicture'[Lowest(m)].p_data = p_subpicture[Lowest(m)].p_data
                       /\ p_subpicture'[Lowest(m)].i_size = p_subpicture[Lowest(m)].i_size
                       /\ call'.freed = {}
                       /\ call'.alloc = 0
                       /\ OthersUnchanged(Lowest(m))
                  ELSE IF FreeSlots # {}
                  THEN /\ call'.ret = IF AllocationFails THEN NULL ELSE Lowest(FreeSlots)
                       /\ call'.freed = {}
                       /\ OthersUnchanged(Lowest(FreeSlots))
                  ELSE IF DestroyedSlots # {}
                  THEN /\ call'.ret = IF AllocationFails THEN NULL
                                      ELSE Lowest(DestroyedSlots)
                       /\ call'.freed = {Lowest(DestroyedSlots)}
                       /\ p_subpicture[Lowest(DestroyedSlots)].p_data > 0
                       /\ p_subpicture'[Lowest(DestroyedSlots)].p_data =
                              IF AllocationFails THEN 0 ELSE call'.alloc
                       /\ OthersUnchanged(Lowest(DestroyedSlots))
                  ELSE call'.ret = NULL]_vars

\* a matching destroyed slot was taken though a free slot came before it
C15_Witness ==
    /\ call.op = "Create"
    /\ call.ret # NULL
    /\ call.alloc = 0
    /\ p_subpicture[call.ret].i_status = "RESERVED"
    /\ \E j \in Slots : j < call.ret /\ p_subpicture[j].i_status = "FREE"

\* ------------------------------------------------------------------------
\* C16: of the subpictures that are ready when a Sort call begins, one that
\* is not a DVD subpicture is in the returned list whatever the date; a DVD
\* subpicture that is not ephemer is in the list exactly when
\* i_start <= display_date <= i_stop; and a DVD subpicture with
\* display_date < i_start is not in the list and stays ready, so that it is
\* among the ready subpictures of the calls that follow.
\* ------------------------------------------------------------------------
InDates(i) ==
    p_subpicture[i].i_start <= call.date /\ call.date <= p_subpicture[i].i_stop

C16_Membership ==
    call.op = "Sort"
        => \A i \in WasReady :
               /\ p_subpicture[i].i_type # "DVD"
                      => i \in Listed /\ p_subpicture[i].i_status = "READY"
               /\ (p_subpicture[i].i_type = "DVD" /\ ~p_subpicture[i].b_ephemer)
                      => (i \in Listed <=> InDates(i))
               /\ (p_subpicture[i].i_type = "DVD" /\ call.date < p_subpicture[i].i_start)
                      => i \notin Listed /\ p_subpicture[i].i_status = "READY"

\* the second call of a run lists a text subpicture past its i_stop and a
\* DVD subpicture in its dates, and has destroyed a DVD subpicture past its
\* i_stop
C16_Witness ==
    /\ call.op = "Sort"
    /\ frames = MaxFrames
    /\ \E i \in Listed :
           p_subpicture[i].i_type = "TEXT" /\ call.date > p_subpicture[i].i_stop
    /\ \E j \in Listed :
           p_subpicture[j].i_type = "DVD" /\ InDates(j)
    /\ \E k \in call.destroyed : k \notin Listed

\* ------------------------------------------------------------------------
\* The loop of a Sort call, seen from the heap the call begins with: the
\* locals when the loop ends and the slots it has linked.
\* ------------------------------------------------------------------------
ScanEnd == SortScan(SortLocals(p_subpicture), 0, call'.date)

ScanLinked ==
    LET walk == RenderWalk(ScanEnd.pool, ScanEnd.p_subpic, VOUT_MAX_SUBPICTURES + 1)
    IN  { walk[k] : k \in 1 .. Len(walk) }

ScanLinkedDvd == { i \in ScanLinked : p_subpicture[i].i_type = "DVD" }

MinStart(S) ==
    CHOOSE m \in { p_subpicture[i].i_start : i \in S } :
        \A i \in S : m <= p_subpicture[i].i_start

\* ------------------------------------------------------------------------
\* C17: when the loop of a Sort call ends, ephemer_date is the least i_start
\* of the DVD subpictures the loop has linked, whatever their i_start, 0
\* included, and is left unset (0) when the loop has linked none.
\* ------------------------------------------------------------------------
C17_CutoffIsMin ==
    [][call'.op = "Sort"
           => ScanEnd.ephemer_date =
                  IF ScanLinkedDvd = {} THEN 0 ELSE MinStart(ScanLinkedDvd)]_vars

\* ------------------------------------------------------------------------
\* C18: when the loop of a Sort call ends with an ephemer subpicture in
\* p_ephemer, the call destroys it and returns the linked list without it
\* if its i_start is below ephemer_date, and otherwise (ephemer_date unset,
\* or i_start at or above it) returns it as the head of the list, the
\* linked subpictures following it in their order; with p_ephemer NULL the
\* call returns the linked list as it is.
\* ------------------------------------------------------------------------
ScanWalk == RenderWalk(ScanEnd.pool, ScanEnd.p_subpic, VOUT_MAX_SUBPICTURES + 1)

ReturnedWalk == RenderWalk(p_subpicture', call'.ret, VOUT_MAX_SUBPICTURES + 1)

C18_EphemerFate ==
    [][call'.op = "Sort"
           => LET e == ScanEnd.p_ephemer
              IN  IF e = NULL
                  THEN ReturnedWalk = ScanWalk
                  ELSE IF p_subpicture[e].i_start < ScanEnd.ephemer_date
                  THEN /\ p_subpicture'[e].i_status = "DESTROYED"
                       /\ e \in call'.destroyed
                       /\ ReturnedWalk = ScanWalk
                       /\ \A k \in 1 .. Len(ReturnedWalk) : ReturnedWalk[k] # e
                  ELSE /\ p_subpicture'[e].i_status = "READY"
                       /\ call'.ret = e
                       /\ ReturnedWalk = << e >> \o ScanWalk]_vars

\* a call has destroyed an ephemer subpicture that was in its dates and
\* has returned the list of the others
C18_Witness ==
    /\ call.op = "Sort"
    /\ Listed # {}
    /\ \E e \in call.destroyed :
           /\ p_subpicture[e].b_ephemer
           /\ InDates(e)
           /\ e \notin Listed
           /\ \E i \in Listed : p_subpicture[e].i_start < p_subpicture[i].i_start
    /\ \E i \in Listed : p_subpicture[i].b_ephemer

\* ------------------------------------------------------------------------
\* C19: of the ephemer DVD subpictures that are ready and in their dates
\* when a Sort call begins, the one the loop holds in p_ephemer when it ends
\* is the one with the latest i_start and, of several with that i_start,
\* the first in the order of the slots: the first one seen is held and
\* gives way only to one that starts strictly later.
\* ------------------------------------------------------------------------
ReadyEphemers ==
    { i \in Slots : /\ p_subpicture[i].i_status = "READY"
                    /\ p_subpicture[i].i_type = "DVD"
                    /\ p_subpicture[i].b_ephemer
                    /\ p_subpicture[i].i_start <= call'.date
                    /\ call'.date <= p_subpicture[i].i_stop }

LatestStarting(S) ==
    { i \in S : \A j \in S : p_subpicture[j].i_start <= p_subpicture[i].i_start }

C19_CandidateIsLatest ==
    [][call'.op = "Sort"
           => ScanEnd.p_ephemer =
                  IF ReadyEphemers = {} THEN NULL
                  ELSE Lowest(LatestStarting(ReadyEphemers))]_vars

\* ------------------------------------------------------------------------
\* C20: the list a Sort call returns is a chain that ends: from the head,
\* p_next leads to NULL through every subpicture the call has kept, each
\* one once, and through no other slot, whatever p_next the slots had from
\* the calls before.
\* ------------------------------------------------------------------------
\* the subpictures a call keeps: ready before and after it, and, for a DVD
\* subpicture, in its dates
Kept ==
    { i \in Slots : /\ p_subpicture[i].i_status = "READY"
                    /\ p_subpicture'[i].i_status = "READY"
                    /\ \/ p_subpicture[i].i_type # "DVD"
                       \/ /\ p_subpicture[i].i_start <= call'.date
                          /\ call'.date <= p_subpicture[i].i_stop }

C20_ListIsChain ==
    [][call'.op = "Sort"
           => /\ Len(ReturnedWalk) <= VOUT_MAX_SUBPICTURES
              /\ \A k, l \in 1 .. Len(ReturnedWalk) :
                     ReturnedWalk[k] = ReturnedWalk[l] => k = l
              /\ { ReturnedWalk[k] : k \in 1 .. Len(ReturnedWalk) } = Kept
              /\ ReturnedWalk # << >>
                     => p_subpicture'[ReturnedWalk[Len(ReturnedWalk)]].p_next = NULL]_vars

\* the second call of a run returns a list of two slots or more while a
\* slot outside it still has the p_next of the first call, and a slot in it
\* has a p_next that the second call has changed to NULL
C20_Witness ==
    /\ call.op = "Sort"
    /\ frames = MaxFrames
    /\ Cardinality(Listed) >= 2
    /\ \E i \in Slots \ Listed : p_subpicture[i].p_next \in Listed
    /\ \E j \in Listed : p_subpicture[j].p_next = NULL /\ j > 0

\* ------------------------------------------------------------------------
\* C21: a Sort call that follows a Sort call at the same date, with no
\* other call between the two, returns a list of the same subpictures and
\* destroys none.
\* ------------------------------------------------------------------------
SortAgain == call.op = "Sort" /\ call'.op = "Sort" /\ call'.date = call.date

C21_SortIsStable ==
    [][SortAgain => (Listed' = Listed /\ call'.destroyed = {})]_vars

\* ------------------------------------------------------------------------
\* C22: every slot that is RESERVED or READY has a live buffer of at least
\* i_size bytes; a buffer goes through free() only in a Create call that
\* holds the mutex, while its slot is DESTROYED, and only while it is live:
\* never twice, and never while its slot is RESERVED or READY.
\* ------------------------------------------------------------------------
\* the slots whose buffer a step releases
Released == { i \in Slots : p_subpicture'[i].p_data < 0 /\ p_subpicture[i].p_data >= 0 }

C22_PayloadOwned ==
    [][/\ \A i \in Slots :
              p_subpicture'[i].i_status \in {"RESERVED", "READY"}
                  => /\ p_subpicture'[i].p_data > 0
                     /\ p_subpicture'[i].p_data >= p_subpicture'[i].i_size
       /\ \A i \in Released :
              /\ p_subpicture[i].i_status = "DESTROYED"
              /\ p_subpicture[i].p_data > 0
              /\ subpicture_lock # NoThread
              /\ \E p \in Producers : pc[p] = "release" /\ subpicture_lock = p]_vars

====
